---- MODULE Spec2Model ----
(***************************************************************************)
(* A model of forge_mcp_web_search's Brave Search client                   *)
(* (search/client.py): construction of BraveSearchClient, the five search  *)
(* coroutines, the shared _request coroutine and the mapping of the        *)
(* provider's JSON into the response records of search/models.py.          *)
(*                                                                         *)
(* A coroutine suspends only at `await client.get(...)`, so an invocation  *)
(* is two steps: the call up to that await (one action per operation) and  *)
(* its resumption with what the transport delivers (Resume).               *)
(***************************************************************************)
EXTENDS Integers, Sequences, FiniteSets, TLC

VARIABLES
    env,        \* os.environ.get("BRAVE_API_KEY"): None when unset
    client,     \* the constructed BraveSearchClient, or NoClient
    ctor,       \* the last call of BraveSearchClient.__init__ and how it ended
    inv,        \* the invocation of a client coroutine, from call to return/raise
    tasks,      \* the invocations of concurrent asyncio tasks sharing the client
    server      \* server.py: the shared `_client` slot and what get_client did

vars == <<env, client, ctor, inv, tasks, server>>

(***************************************************************************)
(* Python values.  None and str arguments are TLA+ strings, None being a   *)
(* string no credential, country code or query is equal to.                *)
(***************************************************************************)
None == "<None>"

\* bool(x) of a str | None argument: None and "" are falsy
Truthy(x) == x # None /\ x # ""

\* `a or b` on str | None operands
Or(a, b) == IF Truthy(a) THEN a ELSE b

Min(a, b) == IF a < b THEN a ELSE b
Max(a, b) == IF a > b THEN a ELSE b

(***************************************************************************)
(* Program constants.                                                      *)
(***************************************************************************)
DefaultTimeout == 30
DefaultCount == 10
DefaultSuggestCount == 5
MinCount == 1
MaxCount == 20
MaxSuggestCount == 10

BASE_URL == "https://api.search.brave.com/res/v1"

(***************************************************************************)
(* Bounds of the model.                                                    *)
(***************************************************************************)
\* count arguments range from CountSlack below the minimum to CountSlack
\* above the largest maximum
CountSlack == 2

CountInputs == (MinCount - CountSlack)..(MaxCount + CountSlack)

\* the number of asyncio tasks that call the client concurrently
NumTasks == 2

\* the number of get_client calls the server model follows
MaxCalls == 3

Tasks == 1..NumTasks

ApiKeyArgs == {None, "", "test-key"}
EnvValues == {None, "", "env-key"}
TimeoutArgs == {DefaultTimeout, 5}

(***************************************************************************)
(* The exception classes of client.py (lines 21-42) and the exceptions of  *)
(* httpx, json and pydantic that client.py lets through.                   *)
(***************************************************************************)
NoError == [kind |-> "none", msg |-> <<>>]

Error(kind, msg) == [kind |-> kind, msg |-> msg]

(***************************************************************************)
(* BraveSearchClient.__init__                                              *)
(***************************************************************************)
NoClient == [api_key |-> None, timeout |-> 0]

\* server.py before the first tool call: `_client` is None (NoInstance), no
\* BraveSearchClient was made or attempted, get_client was never called
NoInstance == 0

NoServer ==
    [client |-> NoInstance, made |-> 0, attempts |-> 0, calls |-> 0,
     first |-> NoInstance, last |-> [exc |-> "none", val |-> NoInstance]]

NoCtor == [called |-> FALSE, api_key |-> None, timeout |-> 0, raised |-> NoError]

\* a resolution that prefers the environment to the argument
ResolveApiKeyEnvFirst(api_key, environ) == Or(environ, api_key)

\* self.api_key = api_key or os.environ.get("BRAVE_API_KEY")
ResolveApiKey(api_key, environ) == Or(api_key, environ)

\* a check that tests `self.api_key is None` and so lets "" through
InitRaisesOnNoneOnly(api_key, environ) == Or(api_key, environ) = None

\* if not self.api_key: raise APIKeyMissingError(...)
InitRaises(api_key, environ) == ~Truthy(ResolveApiKey(api_key, environ))

Construct(api_key, timeout) ==
    /\ client = NoClient
    /\ inv.pc = "idle"
    /\ IF InitRaises(api_key, env)
       THEN /\ client' = NoClient
            /\ ctor' = [called |-> TRUE, api_key |-> api_key, timeout |-> timeout,
                        raised |-> Error("APIKeyMissingError",
                                         <<"BRAVE_API_KEY environment variable is required. ",
                                           "Get your API key at https://brave.com/search/api/">>)]
       ELSE /\ client' = [api_key |-> ResolveApiKey(api_key, env), timeout |-> timeout]
            /\ ctor' = [called |-> TRUE, api_key |-> api_key, timeout |-> timeout,
                        raised |-> NoError]
    /\ UNCHANGED <<env, inv, tasks, server>>

(***************************************************************************)
(* Values decoded from JSON, tagged with their Python type.                *)
(***************************************************************************)
PNone == [t |-> "null"]
PStr(s) == [t |-> "str", s |-> s]
PInt(n) == [t |-> "int", n |-> n]
PBool(b) == [t |-> "bool", b |-> b]
PList(xs) == [t |-> "list", xs |-> xs]
PDict(f) == [t |-> "dict", f |-> f]

EmptyDict == PDict(<<>>)
EmptyList == PList(<<>>)

IsDict(v) == v.t = "dict"

\* d.get(k, dflt) on a dict d
Get(d, k, dflt) == IF k \in DOMAIN d.f THEN d.f[k] ELSE dflt

(***************************************************************************)
(* What the provider can answer.  A body is its text and the document      *)
(* json.loads makes of that text, NotJson when the text is no JSON.        *)
(***************************************************************************)
NotJson == [t |-> "notjson"]

Body(text, doc) == [text |-> text, doc |-> doc]

ErrorBody == Body("{\"error\": \"Invalid API key\"}",
                  PDict([error |-> PStr("Invalid API key")]))
TextBody == Body("Internal Server Error", NotJson)
EmptyBody == Body("", NotJson)

\* tests/fixtures.py WEB_SEARCH_RESPONSE
WebDoc ==
    PDict([query |-> PDict([original |-> PStr("Python tutorial")]),
           web |-> PDict([total |-> PInt(1000000),
                          results |-> PList(<<
                              PDict([title |-> PStr("Python Tutorial - W3Schools"),
                                     url |-> PStr("https://www.w3schools.com/python/"),
                                     description |-> PStr("Learn Python programming with our comprehensive tutorial."),
                                     age |-> PStr("2 days ago"),
                                     language |-> PStr("en"),
                                     family_friendly |-> PBool(TRUE)]),
                              PDict([title |-> PStr("The Python Tutorial - Python.org"),
                                     url |-> PStr("https://docs.python.org/3/tutorial/"),
                                     description |-> PStr("Official Python tutorial.")])
                              >>)])])

\* tests/fixtures.py EMPTY_WEB_SEARCH_RESPONSE
EmptyWebDoc ==
    PDict([query |-> PDict([original |-> PStr("xyznonexistentquery123")]),
           web |-> PDict([total |-> PInt(0), results |-> EmptyList])])

\* documents the provider's schema does not promise: {"web": null} and [1]
NullWebDoc == PDict([web |-> PNone])
ListDoc == PList(<<PInt(1)>>)

\* the body whose text is the JSON text of a document; the model names the
\* text after the document
JsonBody(name, doc) == Body(name, doc)

\* tests/fixtures.py NEWS_SEARCH_RESPONSE
NewsDoc ==
    PDict([query |-> PDict([original |-> PStr("AI news")]),
           results |-> PList(<<
               PDict([title |-> PStr("OpenAI Announces New Model"),
                      url |-> PStr("https://example.com/openai-news"),
                      description |-> PStr("OpenAI has announced a new language model."),
                      meta_url |-> PDict([hostname |-> PStr("techcrunch.com")]),
                      age |-> PStr("2 hours ago"),
                      thumbnail |-> PDict([src |-> PStr("https://example.com/thumb1.jpg")])]),
               PDict([title |-> PStr("Google's AI Advances"),
                      url |-> PStr("https://example.com/google-ai"),
                      description |-> PStr("Google announces new AI capabilities."),
                      meta_url |-> PDict([hostname |-> PStr("theverge.com")]),
                      age |-> PStr("5 hours ago"),
                      thumbnail |-> PNone])
               >>)])

\* tests/fixtures.py IMAGE_SEARCH_RESPONSE, its first result
ImageDoc ==
    PDict([query |-> PDict([original |-> PStr("sunset mountains")]),
           results |-> PList(<<
               PDict([title |-> PStr("Beautiful Sunset Over Mountains"),
                      url |-> PStr("https://example.com/sunset-page"),
                      properties |-> PDict([url |-> PStr("https://example.com/images/sunset.jpg"),
                                            width |-> PInt(1920),
                                            height |-> PInt(1080)]),
                      thumbnail |-> PDict([src |-> PStr("https://example.com/thumbs/sunset_thumb.jpg")]),
                      source |-> PStr("unsplash.com")])
               >>)])

\* tests/fixtures.py VIDEO_SEARCH_RESPONSE, its second result
VideoDoc ==
    PDict([query |-> PDict([original |-> PStr("Python tutorial")]),
           results |-> PList(<<
               PDict([title |-> PStr("Advanced Python Programming"),
                      url |-> PStr("https://youtube.com/watch?v=def456"),
                      description |-> PStr("Take your Python skills to the next level."),
                      thumbnail |-> PDict([src |-> PStr("https://i.ytimg.com/vi/def456/hqdefault.jpg")]),
                      video |-> PDict([duration |-> PStr("2:30:00"),
                                       views |-> PStr("500K views")]),
                      meta_url |-> PDict([hostname |-> PStr("youtube.com")]),
                      age |-> PStr("6 months ago")])
               >>)])

\* tests/fixtures.py SUGGEST_RESPONSE, its first two results
SuggestDoc ==
    PDict([query |-> PDict([original |-> PStr("how to")]),
           results |-> PList(<<PDict([query |-> PStr("how to learn python")]),
                               PDict([query |-> PStr("how to cook pasta")])>>)])

\* tests/fixtures.py SUGGEST_RESPONSE_STRING_FORMAT, its first two results
SuggestStringDoc ==
    PDict([query |-> PStr("how to"),
           results |-> PList(<<PStr("how to learn python"), PStr("how to cook pasta")>>)])

Docs ==
    [WebDoc |-> WebDoc, EmptyWebDoc |-> EmptyWebDoc, NullWebDoc |-> NullWebDoc,
     ListDoc |-> ListDoc, NewsDoc |-> NewsDoc, ImageDoc |-> ImageDoc,
     VideoDoc |-> VideoDoc, SuggestDoc |-> SuggestDoc,
     SuggestStringDoc |-> SuggestStringDoc]

Bodies == {ErrorBody, TextBody, EmptyBody} \cup {JsonBody(n, Docs[n]) : n \in DOMAIN Docs}

Statuses == {200, 201, 401, 403, 429, 500}

\* what `await client.get(...)` delivers: a response, or an exception of httpx
Outcomes ==
    [kind : {"response"}, status : Statuses, body : Bodies]
    \cup [kind : {"ReadTimeout", "ConnectError"}, status : {0}, body : {EmptyBody}]

(***************************************************************************)
(* BraveSearchClient._request, from the response on (lines 91-101).        *)
(***************************************************************************)
\* a classification without the 401 branch
StatusErrorNo401(status, text) ==
    IF status = 429
    THEN Error("RateLimitError",
               <<"Rate limit exceeded. Free tier: 1 req/sec, 2000/month. ",
                 "Consider upgrading at https://brave.com/search/api/">>)
    ELSE IF status # 200
    THEN Error("APIError", <<"API request failed: ", status, " ", text>>)
    ELSE NoError

\* a classification that tests `!= 200` before 429
StatusErrorNo429(status, text) ==
    IF status = 401 THEN Error("APIError", <<"Invalid API key">>)
    ELSE IF status # 200
    THEN Error("APIError", <<"API request failed: ", status, " ", text>>)
    ELSE NoError

\* a classification that takes every status below 400 for a success
StatusErrorFrom400(status, text) ==
    IF status = 401 THEN Error("APIError", <<"Invalid API key">>)
    ELSE IF status = 429
    THEN Error("RateLimitError",
               <<"Rate limit exceeded. Free tier: 1 req/sec, 2000/month. ",
                 "Consider upgrading at https://brave.com/search/api/">>)
    ELSE IF status >= 400
    THEN Error("APIError", <<"API request failed: ", status, " ", text>>)
    ELSE NoError

\* the exception lines 91-99 raise for a status, NoError for 200
StatusError(status, text) ==
    IF status = 401 THEN Error("APIError", <<"Invalid API key">>)
    ELSE IF status = 429
    THEN Error("RateLimitError",
               <<"Rate limit exceeded. Free tier: 1 req/sec, 2000/month. ",
                 "Consider upgrading at https://brave.com/search/api/">>)
    ELSE IF status # 200
    THEN Error("APIError", <<"API request failed: ", status, " ", text>>)
    ELSE NoError

\* response.json(): raises json.JSONDecodeError on a body that is no JSON
JsonRaises(body) == body.doc = NotJson

\* how _request ends for what the transport delivered: the exception that
\* leaves it (NoError when it returns), the dict it returns, and whether
\* response.json() was called
RequestEnd(o) ==
    IF o.kind # "response"
    THEN [error |-> Error(o.kind, <<>>), data |-> NotJson, parsed |-> FALSE]
    ELSE IF StatusError(o.status, o.body.text) # NoError
    THEN [error |-> StatusError(o.status, o.body.text), data |-> NotJson,
          parsed |-> FALSE]
    ELSE IF JsonRaises(o.body)
    THEN [error |-> Error("JSONDecodeError", <<>>), data |-> NotJson, parsed |-> TRUE]
    ELSE [error |-> NoError, data |-> o.body.doc, parsed |-> TRUE]

(***************************************************************************)
(* Python operations on decoded values.  An operator that can raise gives  *)
(* Raise(kind), else Ok(value).                                            *)
(***************************************************************************)
Ok(v) == [exc |-> "none", val |-> v]
Raise(kind) == [exc |-> kind, val |-> [type |-> "none"]]

\* bool(v) of a decoded value
PTruthy(v) ==
    CASE v.t = "null" -> FALSE
      [] v.t = "str" -> v.s # ""
      [] v.t = "int" -> v.n # 0
      [] v.t = "bool" -> v.b
      [] v.t = "list" -> v.xs # <<>>
      [] v.t = "dict" -> DOMAIN v.f # {}

\* the characters of the strings the model iterates over
Chars(s) ==
    CASE s = "" -> <<>>
      [] s = "x" -> <<PStr("x")>>
      [] s = "ab" -> <<PStr("a"), PStr("b")>>

RECURSIVE SeqOfSet(_)
SeqOfSet(S) ==
    IF S = {} THEN <<>>
    ELSE LET x == CHOOSE y \in S : TRUE IN <<x>> \o SeqOfSet(S \ {x})

\* `for item in v`: the items, or TypeError when v is not iterable (a dict
\* gives its keys; the model does not keep their order)
Iter(v) ==
    CASE v.t = "list" -> Ok(v.xs)
      [] v.t = "str" -> Ok(Chars(v.s))
      [] v.t = "dict" -> Ok([i \in DOMAIN SeqOfSet(DOMAIN v.f) |->
                                PStr(SeqOfSet(DOMAIN v.f)[i])])
      [] OTHER -> Raise("TypeError")

\* the loop that appends one result per item, rs[i] being what the i-th
\* iteration gives: the list of the results, or the first exception
Collect(rs) ==
    LET bad == {i \in DOMAIN rs : rs[i].exc # "none"}
    IN IF bad = {} THEN Ok([i \in DOMAIN rs |-> rs[i].val])
       ELSE Raise(rs[CHOOSE i \in bad : \A j \in bad : i <= j].exc)

(***************************************************************************)
(* The field types of search/models.py, as pydantic validates them (lax    *)
(* mode): a str field takes only a str; an int field also a bool; a bool   *)
(* field also 0, 1 and the words pydantic reads as booleans.               *)
(***************************************************************************)
BoolWords == {"0", "1", "true", "false", "on", "off", "yes", "no", "t", "f", "y", "n"}

ValidStr(v) == v.t = "str"
ValidOptStr(v) == v.t \in {"str", "null"}
ValidInt(v) == v.t \in {"int", "bool"}
ValidOptInt(v) == v.t \in {"int", "bool", "null"}
ValidBool(v) ==
    \/ v.t = "bool"
    \/ v.t = "int" /\ v.n \in {0, 1}
    \/ v.t = "str" /\ v.s \in BoolWords

\* the value a validated int field holds
AsInt(v) == IF v.t = "bool" THEN PInt(IF v.b THEN 1 ELSE 0) ELSE v

\* the value a validated bool field holds
AsBool(v) ==
    CASE v.t = "bool" -> v
      [] v.t = "int" -> PBool(v.n = 1)
      [] v.t = "str" -> PBool(v.s \in {"1", "true", "on", "yes", "t", "y"})

\* data.get("query", {}).get("original", query)
EchoedQuery(data, query) ==
    LET q == Get(data, "query", EmptyDict)
    IN IF ~IsDict(q) THEN Raise("AttributeError")
       ELSE Ok(Get(q, "original", PStr(query)))

(***************************************************************************)
(* web_search, lines 141-160                                               *)
(***************************************************************************)
WebSearchResult(item) ==
    IF ~IsDict(item) THEN Raise("AttributeError")
    ELSE LET title == Get(item, "title", PStr(""))
             url == Get(item, "url", PStr(""))
             description == Get(item, "description", PStr(""))
             age == Get(item, "age", PNone)
             language == Get(item, "language", PNone)
             family_friendly == Get(item, "family_friendly", PBool(TRUE))
         IN IF /\ ValidStr(title) /\ ValidStr(url) /\ ValidStr(description)
               /\ ValidOptStr(age) /\ ValidOptStr(language)
               /\ ValidBool(family_friendly)
            THEN Ok([title |-> title, url |-> url, description |-> description,
                     age |-> age, language |-> language,
                     family_friendly |-> AsBool(family_friendly)])
            ELSE Raise("ValidationError")

\* a response whose total_results counts the results returned
WebSearchResponseCountingResults(data, query) ==
    IF ~IsDict(data) THEN Raise("AttributeError")
    ELSE LET web_data == Get(data, "web", EmptyDict) IN
    IF ~IsDict(web_data) THEN Raise("AttributeError")
    ELSE LET items == Iter(Get(web_data, "results", EmptyList)) IN
    IF items.exc # "none" THEN items
    ELSE LET results == Collect([i \in DOMAIN items.val |->
                                    WebSearchResult(items.val[i])]) IN
    IF results.exc # "none" THEN results
    ELSE LET q == EchoedQuery(data, query)
             total == Get(web_data, "total", PNone) IN
    IF q.exc # "none" THEN q
    ELSE IF ~(ValidStr(q.val) /\ ValidOptInt(total)) THEN Raise("ValidationError")
    ELSE Ok([type |-> "WebSearchResponse", query |-> q.val,
             total_results |-> PInt(Len(results.val)), results |-> results.val])

WebSearchResponse(data, query) ==
    IF ~IsDict(data) THEN Raise("AttributeError")
    ELSE LET web_data == Get(data, "web", EmptyDict) IN
    IF ~IsDict(web_data) THEN Raise("AttributeError")
    ELSE LET items == Iter(Get(web_data, "results", EmptyList)) IN
    IF items.exc # "none" THEN items
    ELSE LET results == Collect([i \in DOMAIN items.val |->
                                    WebSearchResult(items.val[i])]) IN
    IF results.exc # "none" THEN results
    ELSE LET q == EchoedQuery(data, query)
             total == Get(web_data, "total", PNone) IN
    IF q.exc # "none" THEN q
    ELSE IF ~(ValidStr(q.val) /\ ValidOptInt(total)) THEN Raise("ValidationError")
    ELSE Ok([type |-> "WebSearchResponse", query |-> q.val,
             total_results |-> AsInt(total), results |-> results.val])

\* data.get("results", []), iterated
ResultItems(data) == Iter(Get(data, "results", EmptyList))

\* a nested lookup whose default is the empty string, whatever dflt is
GetNestedEmptyDefault(item, key, sub, dflt) ==
    LET d == Get(item, key, EmptyDict)
    IN IF ~IsDict(d) THEN Raise("AttributeError") ELSE Ok(Get(d, sub, PStr("")))

\* item.get(key, {}).get(sub, dflt)
GetNested(item, key, sub, dflt) ==
    LET d == Get(item, key, EmptyDict)
    IN IF ~IsDict(d) THEN Raise("AttributeError") ELSE Ok(Get(d, sub, dflt))

(***************************************************************************)
(* news_search, lines 199-219                                              *)
(***************************************************************************)
\* a thumbnail that starts as the empty string instead of None
NewsThumbnailEmptyString(item) ==
    IF ~PTruthy(Get(item, "thumbnail", PNone)) THEN Ok(PStr(""))
    ELSE IF ~IsDict(item.f["thumbnail"]) THEN Raise("AttributeError")
    ELSE Ok(Get(item.f["thumbnail"], "src", PNone))

\* lines 201-203
NewsThumbnail(item) ==
    IF ~PTruthy(Get(item, "thumbnail", PNone)) THEN Ok(PNone)
    ELSE IF ~IsDict(item.f["thumbnail"]) THEN Raise("AttributeError")
    ELSE Ok(Get(item.f["thumbnail"], "src", PNone))

NewsResult(item) ==
    IF ~IsDict(item) THEN Raise("AttributeError")
    ELSE LET thumbnail == NewsThumbnail(item)
             title == Get(item, "title", PStr(""))
             url == Get(item, "url", PStr(""))
             description == Get(item, "description", PStr(""))
             source == GetNested(item, "meta_url", "hostname", PStr("Unknown"))
             published == Get(item, "age", PStr(""))
         IN IF thumbnail.exc # "none" THEN thumbnail
            ELSE IF source.exc # "none" THEN source
            ELSE IF /\ ValidStr(title) /\ ValidStr(url) /\ ValidStr(description)
                    /\ ValidStr(source.val) /\ ValidStr(published)
                    /\ ValidOptStr(thumbnail.val)
            THEN Ok([title |-> title, url |-> url, description |-> description,
                     source |-> source.val, published |-> published,
                     thumbnail |-> thumbnail.val])
            ELSE Raise("ValidationError")

\* the return statement news, image and video search share: the response of
\* the echoed query and the results, once the loop has given the results
ListResponse(type, results, data, query) ==
    IF results.exc # "none" THEN results
    ELSE LET q == EchoedQuery(data, query) IN
    IF q.exc # "none" THEN q
    ELSE IF ~ValidStr(q.val) THEN Raise("ValidationError")
    ELSE Ok([type |-> type, query |-> q.val, results |-> results.val])

NewsSearchResponse(data, query) ==
    IF ~IsDict(data) THEN Raise("AttributeError")
    ELSE LET items == ResultItems(data) IN
    IF items.exc # "none" THEN items
    ELSE ListResponse("NewsSearchResponse",
                      Collect([i \in DOMAIN items.val |-> NewsResult(items.val[i])]),
                      data, query)

(***************************************************************************)
(* image_search, lines 250-270                                             *)
(***************************************************************************)
\* a mapping that prefers the top-level url to properties.url
ImageResultTopLevelFirst(item) ==
    IF ~IsDict(item) THEN Raise("AttributeError")
    ELSE LET properties == Get(item, "properties", EmptyDict)
             thumbnail == Get(item, "thumbnail", EmptyDict)
         IN IF ~IsDict(properties) \/ ~IsDict(thumbnail) THEN Raise("AttributeError")
            ELSE LET title == Get(item, "title", PStr(""))
                     url == Get(item, "url", Get(properties, "url", PStr("")))
                     source_url == Get(item, "url", PStr(""))
                     src == Get(thumbnail, "src", PStr(""))
                     width == Get(properties, "width", PInt(0))
                     height == Get(properties, "height", PInt(0))
                     source == Get(item, "source", PStr(""))
                 IN IF /\ ValidStr(title) /\ ValidStr(url) /\ ValidStr(source_url)
                       /\ ValidStr(src) /\ ValidInt(width) /\ ValidInt(height)
                       /\ ValidOptStr(source)
                    THEN Ok([title |-> title, url |-> url, source_url |-> source_url,
                             thumbnail |-> src, width |-> AsInt(width),
                             height |-> AsInt(height), source |-> source])
                    ELSE Raise("ValidationError")

ImageResult(item) ==
    IF ~IsDict(item) THEN Raise("AttributeError")
    ELSE LET properties == Get(item, "properties", EmptyDict)
             thumbnail == Get(item, "thumbnail", EmptyDict)
         IN IF ~IsDict(properties) \/ ~IsDict(thumbnail) THEN Raise("AttributeError")
            ELSE LET title == Get(item, "title", PStr(""))
                     url == Get(properties, "url", Get(item, "url", PStr("")))
                     source_url == Get(item, "url", PStr(""))
                     src == Get(thumbnail, "src", PStr(""))
                     width == Get(properties, "width", PInt(0))
                     height == Get(properties, "height", PInt(0))
                     source == Get(item, "source", PStr(""))
                 IN IF /\ ValidStr(title) /\ ValidStr(url) /\ ValidStr(source_url)
                       /\ ValidStr(src) /\ ValidInt(width) /\ ValidInt(height)
                       /\ ValidOptStr(source)
                    THEN Ok([title |-> title, url |-> url, source_url |-> source_url,
                             thumbnail |-> src, width |-> AsInt(width),
                             height |-> AsInt(height), source |-> source])
                    ELSE Raise("ValidationError")

ImageSearchResponse(data, query) ==
    IF ~IsDict(data) THEN Raise("AttributeError")
    ELSE LET items == ResultItems(data) IN
    IF items.exc # "none" THEN items
    ELSE ListResponse("ImageSearchResponse",
                      Collect([i \in DOMAIN items.val |-> ImageResult(items.val[i])]),
                      data, query)

(***************************************************************************)
(* video_search, lines 309-329                                             *)
(***************************************************************************)
VideoResult(item) ==
    IF ~IsDict(item) THEN Raise("AttributeError")
    ELSE LET thumbnail == Get(item, "thumbnail", EmptyDict)
             duration == GetNested(item, "video", "duration", PNone)
             source == GetNested(item, "meta_url", "hostname", PStr("Unknown"))
             views == GetNested(item, "video", "views", PNone)
         IN IF ~IsDict(thumbnail) THEN Raise("AttributeError")
            ELSE IF duration.exc # "none" THEN duration
            ELSE IF source.exc # "none" THEN source
            ELSE LET title == Get(item, "title", PStr(""))
                     url == Get(item, "url", PStr(""))
                     description == Get(item, "description", PStr(""))
                     src == Get(thumbnail, "src", PStr(""))
                     published == Get(item, "age", PNone)
                 IN IF /\ ValidStr(title) /\ ValidStr(url) /\ ValidStr(description)
                       /\ ValidStr(src) /\ ValidOptStr(duration.val)
                       /\ ValidStr(source.val) /\ ValidOptStr(published)
                       /\ ValidOptStr(views.val)
                    THEN Ok([title |-> title, url |-> url, description |-> description,
                             thumbnail |-> src, duration |-> duration.val,
                             source |-> source.val, published |-> published,
                             views |-> views.val])
                    ELSE Raise("ValidationError")

VideoSearchResponse(data, query) ==
    IF ~IsDict(data) THEN Raise("AttributeError")
    ELSE LET items == ResultItems(data) IN
    IF items.exc # "none" THEN items
    ELSE ListResponse("VideoSearchResponse",
                      Collect([i \in DOMAIN items.val |-> VideoResult(items.val[i])]),
                      data, query)

(***************************************************************************)
(* suggest, lines 357-375                                                  *)
(***************************************************************************)
\* a loop that takes objects only and skips bare strings
RECURSIVE SuggestionsObjectsOnly(_)
SuggestionsObjectsOnly(items) ==
    IF items = <<>> THEN <<>>
    ELSE LET item == Head(items)
         IN (IF IsDict(item) THEN <<Get(item, "query", PStr(""))>> ELSE <<>>)
            \o SuggestionsObjectsOnly(Tail(items))

\* lines 358-363: a dict gives its "query", a str itself, anything else nothing
RECURSIVE Suggestions(_)
Suggestions(items) ==
    IF items = <<>> THEN <<>>
    ELSE LET item == Head(items)
         IN (IF IsDict(item) THEN <<Get(item, "query", PStr(""))>>
             ELSE IF item.t = "str" THEN <<item>>
             ELSE <<>>) \o Suggestions(Tail(items))

\* lines 366-370
OriginalQuery(data, query) ==
    LET query_data == Get(data, "query", EmptyDict)
    IN IF IsDict(query_data) THEN Get(query_data, "original", PStr(query))
       ELSE PStr(query)

SuggestResponse(data, query) ==
    IF ~IsDict(data) THEN Raise("AttributeError")
    ELSE LET items == ResultItems(data) IN
    IF items.exc # "none" THEN items
    ELSE LET suggestions == Suggestions(items.val)
             original_query == OriginalQuery(data, query) IN
    IF /\ ValidStr(original_query)
       /\ \A k \in DOMAIN suggestions : ValidStr(suggestions[k])
    THEN Ok([type |-> "SuggestResponse", query |-> original_query,
             suggestions |-> suggestions])
    ELSE Raise("ValidationError")

\* the statements of an operation that follow `data = await self._request(...)`
Response(op, data, query) ==
    CASE op = "web_search" -> WebSearchResponse(data, query)
      [] op = "news_search" -> NewsSearchResponse(data, query)
      [] op = "image_search" -> ImageSearchResponse(data, query)
      [] op = "video_search" -> VideoSearchResponse(data, query)
      [] op = "suggest" -> SuggestResponse(data, query)

(***************************************************************************)
(* The invocation of a client coroutine.                                   *)
(***************************************************************************)
NoResult == [type |-> "none"]
NoArgs == [query |-> None]
NoParams == <<>>
NoHeaders == <<>>

Idle ==
    [pc |-> "idle", op |-> "none", args |-> NoArgs, endpoint |-> "", url |-> "",
     params |-> NoParams, headers |-> NoHeaders, timeout |-> 0, gets |-> 0,
     scope |-> "none", got |-> "nothing", status |-> 0, body |-> EmptyBody,
     parsed |-> FALSE, result |-> NoResult, error |-> NoError]

\* the headers of _request (lines 79-82)
Headers(c) == [XSubscriptionToken |-> c.api_key, Accept |-> "application/json"]

\* the coroutine up to its suspension at `await client.get(...)` (lines 84-89)
Awaiting(op, args, endpoint, params) ==
    [pc |-> "await", op |-> op, args |-> args, endpoint |-> endpoint,
     url |-> <<BASE_URL, "/", endpoint>>, params |-> params,
     headers |-> Headers(client), timeout |-> client.timeout, gets |-> 1,
     scope |-> "open", got |-> "nothing", status |-> 0, body |-> EmptyBody,
     parsed |-> FALSE, result |-> NoResult, error |-> NoError]

\* min(max(count, 1), 20)
ClampCount(count) == Min(Max(count, MinCount), MaxCount)

\* `if value: params[key] = value`
With(params, key, value) ==
    IF Truthy(value) THEN [k \in DOMAIN params \cup {key} |->
                              IF k = key THEN value ELSE params[k]]
    ELSE params

CanCall == client # NoClient /\ inv.pc = "idle"

OptionArgs ==
    [query : {"Python tutorial"}, count : {DefaultCount},
     country : {None, "", "us"}, search_lang : {None, "en"},
     freshness : {None, "pw"}, safe_search : {"moderate", "strict"}]

CountArgs ==
    [query : {"Python tutorial"}, count : CountInputs,
     country : {None}, search_lang : {None}, freshness : {None},
     safe_search : {"moderate"}]

SearchArgs == OptionArgs \cup CountArgs

\* lines 126-137
SearchParams(a) ==
    With(With(With([q |-> a.query, count |-> ClampCount(a.count),
                    safesearch |-> a.safe_search],
                   "country", a.country),
              "search_lang", a.search_lang),
         "freshness", a.freshness)

web_search(a) ==
    /\ CanCall
    /\ inv' = Awaiting("web_search", a, "web/search", SearchParams(a))
    /\ UNCHANGED <<env, client, ctor, tasks, server>>

\* lines 184-197
news_search(a) ==
    /\ CanCall
    /\ inv' = Awaiting("news_search", a, "news/search", SearchParams(a))
    /\ UNCHANGED <<env, client, ctor, tasks, server>>

\* lines 294-307
video_search(a) ==
    /\ CanCall
    /\ inv' = Awaiting("video_search", a, "videos/search", SearchParams(a))
    /\ UNCHANGED <<env, client, ctor, tasks, server>>

ImageArgs ==
    [query : {"Python tutorial"}, count : {DefaultCount},
     country : {None, "", "us"}, safe_search : {"moderate", "strict"}]
    \cup [query : {"Python tutorial"}, count : CountInputs,
          country : {None}, safe_search : {"moderate"}]

\* lines 239-246
ImageParams(a) ==
    With([q |-> a.query, count |-> ClampCount(a.count), safesearch |-> a.safe_search],
         "country", a.country)

image_search(a) ==
    /\ CanCall
    /\ inv' = Awaiting("image_search", a, "images/search", ImageParams(a))
    /\ UNCHANGED <<env, client, ctor, tasks, server>>

SuggestArgs ==
    [query : {"Python tutorial"}, count : {DefaultSuggestCount},
     country : {None, "", "us"}]
    \cup [query : {"Python tutorial"}, count : CountInputs, country : {None}]

\* suggest clamping to the range of the four searches
ClampSuggestCountTo20(count) == Min(Max(count, MinCount), MaxCount)

\* min(max(count, 1), 10)
ClampSuggestCount(count) == Min(Max(count, MinCount), MaxSuggestCount)

\* suggest sending the safesearch of the four searches
SuggestParamsWithSafesearch(a) ==
    With([q |-> a.query, count |-> ClampSuggestCount(a.count),
          safesearch |-> "moderate"], "country", a.country)

\* lines 347-353
SuggestParams(a) ==
    With([q |-> a.query, count |-> ClampSuggestCount(a.count)], "country", a.country)

suggest(a) ==
    /\ CanCall
    /\ inv' = Awaiting("suggest", a, "suggest/search", SuggestParams(a))
    /\ UNCHANGED <<env, client, ctor, tasks, server>>

\* a resumption that sends the request again when the provider answers 429
ResumedRetrying(r, o) ==
    IF o.kind = "response" /\ o.status = 429
    THEN [r EXCEPT !.gets = @ + 1]
    ELSE LET e == RequestEnd(o)
             m == IF e.error = NoError THEN Response(r.op, e.data, r.args.query)
                  ELSE Raise(e.error.kind)
         IN [r EXCEPT !.pc = "done", !.scope = "closed", !.got = o.kind,
                      !.status = o.status, !.body = o.body, !.parsed = e.parsed,
                      !.error = IF e.error # NoError THEN e.error
                                ELSE IF m.exc # "none" THEN Error(m.exc, <<>>)
                                ELSE NoError,
                      !.result = m.val]

\* a resumption that closes the connection only after a response was parsed,
\* as a client closed by hand after `response.json()` would
ResumedLeakingOnError(r, o) ==
    LET e == RequestEnd(o)
        m == IF e.error = NoError THEN Response(r.op, e.data, r.args.query)
             ELSE Raise(e.error.kind)
    IN [r EXCEPT !.pc = "done",
                 !.scope = IF e.error = NoError THEN "closed" ELSE "open",
                 !.got = o.kind,
                 !.status = o.status, !.body = o.body, !.parsed = e.parsed,
                 !.error = IF e.error # NoError THEN e.error
                           ELSE IF m.exc # "none" THEN Error(m.exc, <<>>)
                           ELSE NoError,
                 !.result = m.val]

\* the invocation r after `await client.get(...)` delivered o: _request ends
\* (leaving its `async with`), and when it returned, the operation maps the
\* data and returns its response, or raises what the mapping raises
Resumed(r, o) ==
    LET e == RequestEnd(o)
        m == IF e.error = NoError THEN Response(r.op, e.data, r.args.query)
             ELSE Raise(e.error.kind)
    IN [r EXCEPT !.pc = "done", !.scope = "closed", !.got = o.kind,
                 !.status = o.status, !.body = o.body, !.parsed = e.parsed,
                 !.error = IF e.error # NoError THEN e.error
                           ELSE IF m.exc # "none" THEN Error(m.exc, <<>>)
                           ELSE NoError,
                 !.result = m.val]

Resume(o) ==
    /\ inv.pc = "await"
    /\ inv' = Resumed(inv, o)
    /\ UNCHANGED <<env, client, ctor, tasks, server>>

\* the caller has the response or the exception; the coroutine is over
Return ==
    /\ inv.pc = "done"
    /\ inv' = Idle
    /\ UNCHANGED <<env, client, ctor, tasks, server>>

Init ==
    /\ env \in EnvValues
    /\ client = NoClient
    /\ ctor = NoCtor
    /\ inv = Idle
    /\ tasks = [i \in Tasks |-> Idle]
    /\ server = NoServer

Next ==
    \/ \E k \in ApiKeyArgs, t \in TimeoutArgs : Construct(k, t)
    \/ \E a \in SearchArgs : web_search(a)
    \/ \E a \in SearchArgs : news_search(a)
    \/ \E a \in ImageArgs : image_search(a)
    \/ \E a \in SearchArgs : video_search(a)
    \/ \E a \in SuggestArgs : suggest(a)
    \/ \E o \in Outcomes : Resume(o)
    \/ Return

Spec == Init /\ [][Next]_vars

(***************************************************************************)
(* Concurrent invocations on one client.  asyncio runs a coroutine until   *)
(* it awaits, so the tasks interleave at `await client.get(...)` only: a   *)
(* task's call up to the await and its resumption are each one step.       *)
(***************************************************************************)
Endpoint(op) ==
    CASE op = "web_search" -> "web/search"
      [] op = "news_search" -> "news/search"
      [] op = "image_search" -> "images/search"
      [] op = "video_search" -> "videos/search"
      [] op = "suggest" -> "suggest/search"

Params(op, a) ==
    CASE op \in {"web_search", "news_search", "video_search"} -> SearchParams(a)
      [] op = "image_search" -> ImageParams(a)
      [] op = "suggest" -> SuggestParams(a)

\* an operation called with its arguments, up to its await
Started(op, a) == Awaiting(op, a, Endpoint(op), Params(op, a))

\* the calls and the deliveries the concurrent tasks draw from
TaskCalls ==
    {<<"web_search", [query |-> "Python tutorial", count |-> DefaultCount,
                      country |-> "us", search_lang |-> None, freshness |-> None,
                      safe_search |-> "moderate"]>>,
     <<"news_search", [query |-> "AI news", count |-> DefaultCount,
                       country |-> None, search_lang |-> None, freshness |-> "pw",
                       safe_search |-> "moderate"]>>,
     <<"image_search", [query |-> "sunset mountains", count |-> DefaultCount,
                        country |-> None, safe_search |-> "strict"]>>,
     <<"video_search", [query |-> "Python tutorial", count |-> MaxCount + 1,
                        country |-> None, search_lang |-> "en", freshness |-> None,
                        safe_search |-> "moderate"]>>,
     <<"suggest", [query |-> "how to", count |-> DefaultSuggestCount,
                   country |-> None]>>,
     <<"suggest", [query |-> "how", count |-> MaxSuggestCount + 1,
                   country |-> "us"]>>}

TaskOutcomes ==
    [kind : {"response"}, status : {200},
     body : {JsonBody("WebDoc", WebDoc), JsonBody("SuggestDoc", SuggestDoc)}]
    \cup [kind : {"response"}, status : {401, 429}, body : {ErrorBody}]
    \cup [kind : {"ReadTimeout"}, status : {0}, body : {EmptyBody}]

\* a resumption that maps the response for the operation called last, as a
\* request kept on the client instead of in the coroutine would
TaskResumedSharedRequest(ts, i, o) ==
    LET waiting == {j \in DOMAIN ts : ts[j].pc = "await"}
        last == CHOOSE j \in waiting : \A k \in waiting : k <= j
    IN Resumed([ts[i] EXCEPT !.op = ts[last].op, !.args = ts[last].args], o)

\* task i of ts after `await client.get(...)` delivered o to it: _request and
\* the operation keep the request and the response in locals
TaskResumed(ts, i, o) == Resumed(ts[i], o)

TaskCall(i, op, a) ==
    /\ client # NoClient
    /\ tasks[i].pc = "idle"
    /\ tasks' = [tasks EXCEPT ![i] = Started(op, a)]
    /\ UNCHANGED <<env, client, ctor, inv, server>>

TaskResume(i, o) ==
    /\ tasks[i].pc = "await"
    /\ tasks' = [tasks EXCEPT ![i] = TaskResumed(tasks, i, o)]
    /\ UNCHANGED <<env, client, ctor, inv, server>>

TaskReturn(i) ==
    /\ tasks[i].pc = "done"
    /\ tasks' = [tasks EXCEPT ![i] = Idle]
    /\ UNCHANGED <<env, client, ctor, inv, server>>

NextTasks ==
    \/ \E t \in TimeoutArgs : Construct("test-key", t)
    \/ \E i \in Tasks, c \in TaskCalls : TaskCall(i, c[1], c[2])
    \/ \E i \in Tasks, o \in TaskOutcomes : TaskResume(i, o)
    \/ \E i \in Tasks : TaskReturn(i)

SpecTasks == Init /\ [][NextTasks]_vars

(***************************************************************************)
(* The mapping of a 200 response, for documents beyond the fixtures: each  *)
(* field of the provider's schema present in its schema form, absent, null *)
(* or of another type.  The operations are called with their defaults.     *)
(***************************************************************************)
\* the longest generated `results` list
MaxItems == 2

\* the value of a key the document does not have
Absent == [t |-> "absent"]

\* the dict d with d[k] = v, without k when v is Absent
Put(d, k, v) ==
    IF v = Absent THEN PDict([x \in DOMAIN d.f \ {k} |-> d.f[x]])
    ELSE PDict([x \in DOMAIN d.f \cup {k} |-> IF x = k THEN v ELSE d.f[x]])

\* a result item with every field the five mappings read, and one with few
FullItem ==
    PDict([title |-> PStr("Result"), url |-> PStr("https://example.com/page"),
           description |-> PStr("A result."), age |-> PStr("2 hours ago"),
           meta_url |-> PDict([hostname |-> PStr("example.com")]),
           thumbnail |-> PDict([src |-> PStr("https://example.com/thumb.jpg")]),
           properties |-> PDict([url |-> PStr("https://example.com/image.jpg"),
                                 width |-> PInt(800), height |-> PInt(600)]),
           video |-> PDict([duration |-> PStr("10:00")]),
           source |-> PStr("example.org")])

BareItem == PDict([title |-> PStr("Result"), url |-> PStr("https://example.com/page")])

\* what a field of an item is varied to
FieldValues ==
    [title |-> {Absent, PNone, PInt(5)},
     url |-> {Absent},
     meta_url |-> {Absent, PNone, EmptyDict, PStr("example.com"),
                   PDict([hostname |-> PStr("news.example.com")])},
     thumbnail |-> {Absent, PNone, EmptyDict, PStr("https://example.com/thumb.jpg"),
                    PDict([src |-> PStr("https://example.com/small.jpg")])},
     properties |-> {Absent, PNone, EmptyDict,
                     PDict([url |-> PStr("https://example.com/full.jpg")])},
     video |-> {Absent, PNone, EmptyDict}]

Items ==
    {FullItem, BareItem}
    \cup UNION {{Put(b, k, v) : v \in FieldValues[k]} :
                    k \in DOMAIN FieldValues, b \in {FullItem, BareItem}}

\* the items of the generated lists of more than one item: suggestions as
\* bare strings and as objects, and results told apart by their title
Titled(title) == PDict([title |-> PStr(title), url |-> PStr("https://example.com/page")])

ListItems ==
    {PStr("how to code"), PDict([query |-> PStr("how to code")]),
     PStr("how to cook"), PDict([query |-> PStr("how to cook")]),
     Titled("First"), Titled("Second")}

ResultLists ==
    {Absent, PNone}
    \cup {PList(<<x>>) : x \in Items}
    \cup {PList(xs) : xs \in UNION {[1..n -> ListItems] : n \in 0..MaxItems}}

Echo == PDict([original |-> PStr("echoed query")])

QueryValues ==
    {Absent, PNone, EmptyDict, PStr("how to"), Echo,
     PDict([original |-> PStr("")]), PDict([original |-> PNone])}

TotalValues == {Absent, PNone, PInt(0), PInt(5), PStr("many")}

\* {"query": q, "web": {"total": total, "results": results}}
WebShaped(q, total, results) ==
    Put(PDict([web |-> Put(Put(EmptyDict, "total", total), "results", results)]),
        "query", q)

\* {"query": q, "results": results}
ListShaped(q, results) == Put(Put(EmptyDict, "results", results), "query", q)

MapDocs ==
    {WebShaped(q, PInt(5), PList(<<FullItem>>)) : q \in QueryValues}
    \cup {ListShaped(q, PList(<<FullItem>>)) : q \in QueryValues}
    \cup {WebShaped(Echo, PInt(5), l) : l \in ResultLists}
    \cup {ListShaped(Echo, l) : l \in ResultLists}
    \cup {WebShaped(Echo, t, l) :
              t \in TotalValues,
              l \in {EmptyList, PList(<<FullItem>>),
                     PList(<<Titled("First"), Titled("Second")>>)}}
    \cup {Put(PDict([query |-> Echo]), "web", w) : w \in {Absent, PNone}}

\* json.dumps: the text of a body that decodes to the document v
RECURSIVE Join(_)
Join(texts) ==
    IF texts = <<>> THEN ""
    ELSE IF Len(texts) = 1 THEN texts[1]
    ELSE texts[1] \o ", " \o Join(Tail(texts))

RECURSIVE Dumps(_)
Dumps(v) ==
    CASE v.t = "null" -> "null"
      [] v.t = "str" -> "\"" \o v.s \o "\""
      [] v.t = "int" -> ToString(v.n)
      [] v.t = "bool" -> IF v.b THEN "true" ELSE "false"
      [] v.t = "list" -> "[" \o Join([i \in DOMAIN v.xs |-> Dumps(v.xs[i])]) \o "]"
      [] v.t = "dict" ->
            LET keys == SeqOfSet(DOMAIN v.f)
            IN "{" \o Join([i \in DOMAIN keys |->
                               "\"" \o keys[i] \o "\": " \o Dumps(v.f[keys[i]])]) \o "}"

MapOutcomes ==
    {[kind |-> "response", status |-> 200, body |-> JsonBody(Dumps(d), d)] :
         d \in MapDocs}

\* the calls with every optional argument left at its default
DefaultSearchArgs ==
    {a \in OptionArgs : /\ a.country = None /\ a.search_lang = None
                        /\ a.freshness = None /\ a.safe_search = "moderate"}

DefaultImageArgs ==
    {a \in ImageArgs : /\ a.count = DefaultCount /\ a.country = None
                       /\ a.safe_search = "moderate"}

DefaultSuggestArgs ==
    {a \in SuggestArgs : a.count = DefaultSuggestCount /\ a.country = None}

NextMap ==
    \/ Construct("test-key", DefaultTimeout)
    \/ \E a \in DefaultSearchArgs : web_search(a)
    \/ \E a \in DefaultSearchArgs : news_search(a)
    \/ \E a \in DefaultImageArgs : image_search(a)
    \/ \E a \in DefaultSearchArgs : video_search(a)
    \/ \E a \in DefaultSuggestArgs : suggest(a)
    \/ \E o \in MapOutcomes : Resume(o)
    \/ Return

SpecMap == Init /\ [][NextMap]_vars

(***************************************************************************)
(* server.py: the tools share one client, made by get_client on first use. *)
(* get_client has no await, so it runs as one step of the tool that calls  *)
(* it; the tool then runs the client's operation up to its await.  The     *)
(* n-th BraveSearchClient the process makes is instance n.                 *)
(***************************************************************************)
\* what a get_client call gives its caller
Instance(n) == [exc |-> "none", val |-> n]
Raised(kind) == [exc |-> kind, val |-> NoInstance]

\* a get_client that makes a client on every call
get_clientAlwaysConstructing(sv, environ) ==
    LET called == [sv EXCEPT !.calls = @ + 1, !.attempts = @ + 1]
    IN IF InitRaises(None, environ)
       THEN [called EXCEPT !.last = Raised("APIKeyMissingError")]
       ELSE [called EXCEPT !.made = @ + 1, !.client = sv.made + 1,
                           !.first = IF @ = NoInstance THEN sv.made + 1 ELSE @,
                           !.last = Instance(sv.made + 1)]

\* server.py lines 51-56: the server after a get_client call, `last` being
\* what the call returned or raised
get_client(sv, environ) ==
    LET called == [sv EXCEPT !.calls = @ + 1]
    IN IF sv.client # NoInstance
       THEN [called EXCEPT !.first = IF @ = NoInstance THEN sv.client ELSE @,
                           !.last = Instance(sv.client)]
       ELSE IF InitRaises(None, environ)
       THEN [called EXCEPT !.attempts = @ + 1,
                           !.last = Raised("APIKeyMissingError")]
       ELSE [called EXCEPT !.attempts = @ + 1, !.made = @ + 1,
                           !.client = sv.made + 1,
                           !.first = IF @ = NoInstance THEN sv.made + 1 ELSE @,
                           !.last = Instance(sv.made + 1)]

\* the tool calls and the deliveries the server model draws from
ToolCalls == {c \in TaskCalls : c[2].count \in {DefaultCount, DefaultSuggestCount}
                                /\ c[1] \in {"web_search", "suggest"}}

ToolOutcomes == {o \in TaskOutcomes : o.status \in {200, 429} /\ o.body # JsonBody("SuggestDoc", SuggestDoc)}

\* BraveSearchClient() as get_client calls it: no argument
SharedCtor(raised) ==
    [called |-> TRUE, api_key |-> None, timeout |-> DefaultTimeout, raised |-> raised]

\* a tool: client = get_client(); return await client.<op>(...)
Tool(i, op, a) ==
    /\ tasks[i].pc = "idle"
    /\ server.calls < MaxCalls
    /\ server' = get_client(server, env)
    /\ IF server'.last.exc # "none"
       THEN /\ ctor' = SharedCtor(Error(server'.last.exc, <<>>))
            /\ client' = client
            /\ tasks' = [tasks EXCEPT ![i] =
                            [Idle EXCEPT !.pc = "done", !.op = op, !.args = a,
                                         !.error = Error(server'.last.exc, <<>>)]]
       ELSE /\ IF server'.made # server.made
               THEN /\ client' = [api_key |-> ResolveApiKey(None, env),
                                  timeout |-> DefaultTimeout]
                    /\ ctor' = SharedCtor(NoError)
               ELSE UNCHANGED <<client, ctor>>
            /\ tasks' = [tasks EXCEPT ![i] = Started(op, a)']
    /\ UNCHANGED <<env, inv>>

\* the process environment changes between tool calls
SetEnv(value) ==
    /\ env # value
    /\ env' = value
    /\ UNCHANGED <<client, ctor, inv, tasks, server>>

NextServer ==
    \/ \E i \in Tasks, c \in ToolCalls : Tool(i, c[1], c[2])
    \/ \E i \in Tasks, o \in ToolOutcomes : TaskResume(i, o)
    \/ \E i \in Tasks : TaskReturn(i)
    \/ \E value \in EnvValues : SetEnv(value)

SpecServer == Init /\ [][NextServer]_vars

(***************************************************************************)
(* Properties.  The specification's error kinds are the classes of         *)
(* client.py: CredentialMissing is APIKeyMissingError, ProviderError is    *)
(* APIError, RateLimitError is RateLimitError; client.py has no class for  *)
(* AuthenticationError.                                                    *)
(***************************************************************************)
CredentialMissing == "APIKeyMissingError"
ProviderError == "APIError"
RateLimitError == "RateLimitError"
AuthenticationError == "AuthenticationError"

\* the invocation has ended after the provider answered with this status
Answered(status) == inv.pc = "done" /\ inv.got = "response" /\ inv.status = status

\* the invocation has ended by raising
Failed == inv.pc = "done" /\ inv.error # NoError /\ inv.result = NoResult

\* the invocation has ended by returning a response
Returned == inv.pc = "done" /\ inv.error = NoError /\ inv.result # NoResult

\* C1 as claimed: after a 401 the operation fails with AuthenticationError, a
\* kind other than the ProviderError of the other statuses, and returns nothing.
C1_AuthenticationErrorOn401 ==
    Answered(401) =>
        /\ Failed
        /\ inv.error.kind = AuthenticationError
        /\ inv.error.kind # ProviderError

\* C1 amended: after a 401 every operation fails with ProviderError (APIError),
\* the kind of the other non-200 statuses, told apart only by its message
\* "Invalid API key", which carries neither status nor body; nothing is returned.
C1_ProviderErrorOn401 ==
    Answered(401) =>
        /\ Failed
        /\ inv.error.kind = ProviderError
        /\ inv.error.msg = <<"Invalid API key">>

C1_Witness == Answered(401) /\ inv.op = "suggest" /\ inv.body = ErrorBody

\* C2: after a 429 every operation fails with RateLimitError and no other
\* kind, and returns no response.
C2_RateLimitErrorOn429 ==
    Answered(429) => Failed /\ inv.error.kind = RateLimitError

C2_Witness == Answered(429) /\ inv.op = "news_search" /\ inv.error.kind = RateLimitError

\* C3: after any status other than 200, 401 and 429 the operation fails with
\* ProviderError whose detail carries the status code and the body text; the
\* body is neither parsed nor mapped into a response.
C3_ProviderErrorOnOtherStatus ==
    (inv.pc = "done" /\ inv.got = "response" /\ inv.status \notin {200, 401, 429}) =>
        /\ Failed
        /\ inv.error.kind = ProviderError
        /\ Len(inv.error.msg) = 4
        /\ inv.error.msg[2] = inv.status
        /\ inv.error.msg[4] = inv.body.text
        /\ ~inv.parsed

C3_Witness ==
    /\ Answered(201) /\ inv.op = "web_search" /\ inv.body = JsonBody("WebDoc", WebDoc)
    /\ inv.error.msg[2] = 201

\* C4 as claimed: a 200 whose body is no JSON makes the operation fail with
\* ProviderError and with no other kind.
C4_ProviderErrorOnMalformedBody ==
    (Answered(200) /\ JsonRaises(inv.body)) => Failed /\ inv.error.kind = ProviderError

\* C5 as claimed: a timeout or a network failure of the request makes the
\* operation fail with ProviderError, not with a kind of its own.
C5_ProviderErrorOnTimeout ==
    (inv.pc = "done" /\ inv.got \in {"ReadTimeout", "ConnectError"}) =>
        Failed /\ inv.error.kind = ProviderError

\* C6 as claimed: an invocation ends either with a response or with one of
\* AuthenticationError, RateLimitError and ProviderError, whatever the
\* provider delivers.
C6_ResponseOrClassifiedError ==
    inv.pc = "done" =>
        \/ Returned
        \/ Failed /\ inv.error.kind \in {AuthenticationError, RateLimitError, ProviderError}

\* C7: an invocation sends exactly one GET, whatever its outcome: one has been
\* sent from the call on, and none is added by a 401, a 429, another status,
\* a failure or a success.
C7_ExactlyOneGet ==
    /\ inv.pc = "idle" => inv.gets = 0
    /\ inv.pc \in {"await", "done"} => inv.gets = 1

C7_Witness == Answered(429) /\ Failed /\ inv.gets = 1

\* the inclusive range of the count an operation sends
CountRange(op) == IF op = "suggest" THEN <<1, 10>> ELSE <<1, 20>>

\* C8: the count sent is the count given when it lies in [1, 20] (suggest:
\* [1, 10]), the minimum when it is below and the maximum when it is above; a
\* count out of range is sent clamped and the request is made.
C8_CountClamped ==
    inv.pc \in {"await", "done"} =>
        LET lo == CountRange(inv.op)[1]
            hi == CountRange(inv.op)[2]
            given == inv.args.count
        IN /\ inv.gets = 1
           /\ inv.params.count = IF given < lo THEN lo
                                 ELSE IF given > hi THEN hi
                                 ELSE given

C8_Witness ==
    /\ inv.pc = "await" /\ inv.op = "suggest"
    /\ inv.args.count = 12 /\ inv.params.count = 10

\* C9 as claimed: a client constructed with an explicit credential argument
\* holds that credential whatever the environment; one constructed without
\* holds the environment's value.
C9_ExplicitCredentialWins ==
    client # NoClient =>
        /\ ctor.api_key # None => client.api_key = ctor.api_key
        /\ ctor.api_key = None => client.api_key = env

\* C9 amended: a client constructed with a non-empty explicit credential holds
\* that credential whatever the environment; one constructed without an
\* explicit credential, or with an empty one, holds the environment's value.
C9_NonEmptyExplicitCredentialWins ==
    client # NoClient =>
        /\ ctor.api_key \notin {None, ""} => client.api_key = ctor.api_key
        /\ ctor.api_key \in {None, ""} => client.api_key = env

C9_Witness ==
    client # NoClient /\ ctor.api_key = "test-key" /\ env = "env-key"

\* C10: construction fails with CredentialMissing exactly when neither the
\* argument nor the environment gives a non-empty value, and fails in no other
\* way; every client holds a non-empty credential; no operation raises
\* CredentialMissing.
C10_CredentialMissingOnlyAtConstruction ==
    /\ ctor.called =>
        /\ ctor.raised.kind = CredentialMissing
               <=> (ctor.api_key \in {None, ""} /\ env \in {None, ""})
        /\ ctor.raised.kind \in {"none", CredentialMissing}
        /\ ctor.raised = NoError <=> client # NoClient
    /\ client # NoClient => client.api_key \notin {None, ""}
    /\ inv.pc # "idle" => client # NoClient
    /\ inv.error.kind # CredentialMissing

C10_Witness ==
    ctor.called /\ ctor.raised.kind = CredentialMissing /\ ctor.api_key = "" /\ env = ""

\* C11: a request opens a connection scope of its own and the scope is
\* released before the invocation ends, on every path: a response, a 401, a
\* 429, another status, a body that does not parse, a timeout.
C11_ScopeReleased ==
    /\ inv.pc = "idle" => inv.scope = "none"
    /\ inv.pc = "await" => inv.scope = "open" /\ inv.gets = 1
    /\ inv.pc = "done" => inv.scope = "closed"

C11_Witness == inv.pc = "done" /\ inv.got = "ReadTimeout" /\ inv.scope = "closed"

\* C12: concurrent invocations on one client are independent: under every
\* interleaving, what an invocation sent and how it ended are what its own
\* arguments, the client's credential and timeout and its own delivery give,
\* and the client's credential and timeout stay what construction made them.
C12_TasksIndependent ==
    /\ client # NoClient =>
           client = [api_key |-> ResolveApiKey(ctor.api_key, env),
                     timeout |-> ctor.timeout]
    /\ \A i \in Tasks :
        LET r == tasks[i]
            o == [kind |-> r.got, status |-> r.status, body |-> r.body]
        IN /\ r.pc = "await" => r = Started(r.op, r.args)
           /\ r.pc = "done" => r = Resumed(Started(r.op, r.args), o)

C12_Witness ==
    /\ tasks[1].pc = "done" /\ tasks[1].op = "suggest"
    /\ tasks[1].error.kind = "RateLimitError"
    /\ tasks[2].pc = "done" /\ tasks[2].op = "web_search"
    /\ tasks[2].error = NoError /\ tasks[2].result.type = "WebSearchResponse"

\* the document of the 200 response the invocation ended on
Data == inv.body.doc

\* d[k] of an upstream object d, Absent when d is no object or has no k
Upstream(d, k) == IF IsDict(d) /\ k \in DOMAIN d.f THEN d.f[k] ELSE Absent

\* C13 as claimed: the query of a returned response is the original query the
\* provider echoed when the document has one, else the input query, and it is
\* never the empty string.
C13_EchoedQueryNeverEmpty ==
    Returned =>
        LET original == Upstream(Upstream(Data, "query"), "original")
        IN /\ inv.result.query =
                  IF original # Absent THEN original ELSE PStr(inv.args.query)
           /\ inv.result.query # PStr("")

\* C14 as claimed: extraction is tolerant.  After a 200 response whose body
\* is a JSON object, with fields missing, null or of another type, every
\* operation returns a response and does not raise.
C14_TolerantExtraction == Answered(200) /\ IsDict(Data) => Returned

\* a suggestion as the provider sends it: a bare string, or {"query": text}
IsSuggestion(item) ==
    \/ item.t = "str"
    \/ IsDict(item) /\ DOMAIN item.f = {"query"} /\ item.f["query"].t = "str"

SuggestionText(item) == IF IsDict(item) THEN item.f["query"] ELSE item

\* C15: suggest takes its items as bare strings and as {"query": text} objects
\* alike: the suggestions returned are the texts of the upstream items in
\* upstream order, so a list of strings and the list of objects with the same
\* texts give the same sequence.
C15_SuggestionsInEitherForm ==
    LET results == Upstream(Data, "results")
    IN /\ Returned /\ inv.op = "suggest" /\ results.t = "list"
       /\ \A i \in DOMAIN results.xs : IsSuggestion(results.xs[i])
       => inv.result.suggestions =
              [i \in DOMAIN results.xs |-> SuggestionText(results.xs[i])]

C15_Witness ==
    /\ Returned /\ inv.op = "suggest"
    /\ Upstream(Data, "results") =
           PList(<<PStr("how to code"), PDict([query |-> PStr("how to cook")])>>)
    /\ inv.result.suggestions = <<PStr("how to code"), PStr("how to cook")>>

\* the items of the upstream `results` list of a list-shaped document
UpstreamItems == Get(Data, "results", EmptyList).xs

\* C16: in a returned news or video response, the source of each result is
\* the `meta_url.hostname` of its upstream item, and "Unknown" when the item
\* has no `meta_url` or a `meta_url` without `hostname`.
C16_SourceUnknownOrHostname ==
    Returned /\ inv.op \in {"news_search", "video_search"} =>
        \A i \in DOMAIN UpstreamItems :
            LET hostname == Upstream(Upstream(UpstreamItems[i], "meta_url"), "hostname")
            IN inv.result.results[i].source =
                   IF hostname = Absent THEN PStr("Unknown") ELSE hostname

C16_Witness ==
    /\ Returned /\ inv.op = "video_search"
    /\ UpstreamItems = <<Put(FullItem, "meta_url", EmptyDict)>>
    /\ inv.result.results[1].source = PStr("Unknown")

\* C17: in a returned news response, the thumbnail of a result is absent
\* (None) when its upstream item has no `thumbnail` or a null one, and is the
\* `thumbnail.src` string when the upstream item has one.
C17_NewsThumbnail ==
    Returned /\ inv.op = "news_search" =>
        \A i \in DOMAIN UpstreamItems :
            LET thumbnail == Upstream(UpstreamItems[i], "thumbnail")
                src == Upstream(thumbnail, "src")
            IN /\ thumbnail \in {Absent, PNone} =>
                      inv.result.results[i].thumbnail = PNone
               /\ src # Absent => inv.result.results[i].thumbnail = src

C17_Witness ==
    /\ Returned /\ inv.op = "news_search"
    /\ UpstreamItems = <<Put(FullItem, "thumbnail", PNone)>>
    /\ inv.result.results[1].thumbnail = PNone

\* C18: in a returned image response, the display url of a result is the
\* `properties.url` of its upstream item when the item has one, whether or
\* not it has a top-level `url`, and the top-level `url` otherwise; the source
\* page url is the top-level `url`.
C18_ImageUrl ==
    Returned /\ inv.op = "image_search" =>
        \A i \in DOMAIN UpstreamItems :
            LET url == Upstream(UpstreamItems[i], "url")
                display == Upstream(Upstream(UpstreamItems[i], "properties"), "url")
            IN /\ display # Absent => inv.result.results[i].url = display
               /\ display = Absent /\ url # Absent => inv.result.results[i].url = url
               /\ url # Absent => inv.result.results[i].source_url = url

C18_Witness ==
    /\ Returned /\ inv.op = "image_search"
    /\ UpstreamItems = <<FullItem>>
    /\ inv.result.results[1].url = PStr("https://example.com/image.jpg")
    /\ inv.result.results[1].source_url = PStr("https://example.com/page")

\* C19: a returned web response has one result per item of the upstream
\* `web.results`, in upstream order, and the upstream `web.total` as its
\* total_results; an empty `web.results` with `web.total` 0 gives no results
\* and total_results 0, and no error.
C19_WebResultsAndTotal ==
    LET web == Upstream(Data, "web")
        results == Upstream(web, "results")
        total == Upstream(web, "total")
    IN /\ Returned /\ inv.op = "web_search" =>
           /\ results.t = "list" =>
                  /\ Len(inv.result.results) = Len(results.xs)
                  /\ \A i \in DOMAIN results.xs :
                         Upstream(results.xs[i], "title") # Absent =>
                             inv.result.results[i].title = results.xs[i].f["title"]
           /\ total.t = "int" => inv.result.total_results = total
       /\ /\ Answered(200) /\ inv.op = "web_search"
          /\ results = EmptyList /\ total = PInt(0)
          /\ Upstream(Data, "query") = Echo
          => Returned /\ inv.result.results = <<>> /\ inv.result.total_results = PInt(0)

C19_Witness ==
    /\ Returned /\ inv.op = "web_search"
    /\ Upstream(Upstream(Data, "web"), "results") =
           PList(<<Titled("First"), Titled("Second")>>)
    /\ Upstream(Upstream(Data, "web"), "total") = PInt(5)
    /\ inv.result.results[2].title = PStr("Second")
    /\ inv.result.total_results = PInt(5)

\* the parameters an operation always sends, and those it has an optional
\* argument for
AlwaysSent(op) == IF op = "suggest" THEN {"q", "count"} ELSE {"q", "count", "safesearch"}

OptionallySent(op) ==
    IF op \in {"web_search", "news_search", "video_search"}
    THEN {"country", "search_lang", "freshness"}
    ELSE {"country"}

\* C20 as claimed: the parameters sent are those the operation always sends
\* and, of country, search_lang and freshness, those the operation has an
\* argument for and the caller gave a value (not None).
C20_ParamsOfGivenArguments ==
    inv.pc \in {"await", "done"} =>
        DOMAIN inv.params =
            AlwaysSent(inv.op)
            \cup {k \in OptionallySent(inv.op) : inv.args[k] # None}

\* C20 amended: the parameters sent are those the operation always sends and,
\* of country, search_lang and freshness, those the operation has an argument
\* for and the caller gave a non-empty value: an argument given as "" is not
\* sent.  Image search never sends search_lang or freshness; suggest never
\* sends safesearch, search_lang or freshness.
C20_ParamsOfNonEmptyArguments ==
    inv.pc \in {"await", "done"} =>
        DOMAIN inv.params =
            AlwaysSent(inv.op)
            \cup {k \in OptionallySent(inv.op) : inv.args[k] \notin {None, ""}}

C20_Witness ==
    /\ inv.pc = "await" /\ inv.op = "web_search"
    /\ inv.args.country = "" /\ inv.args.search_lang = "en" /\ inv.args.freshness = None
    /\ DOMAIN inv.params = {"q", "count", "safesearch", "search_lang"}

\* C21 as claimed: suggest reads the echoed query from both shapes of the
\* `query` envelope: from an object its `original`, from a bare string the
\* string itself.
C21_EchoedQueryFromEitherEnvelope ==
    Returned /\ inv.op = "suggest" =>
        LET envelope == Upstream(Data, "query")
        IN /\ Upstream(envelope, "original") # Absent =>
                  inv.result.query = envelope.f["original"]
           /\ envelope.t = "str" => inv.result.query = envelope

\* C22: the server's shared client is made lazily and at most once: none is
\* made or attempted before the first get_client call; every call that
\* returns gives the instance the first successful call gave; a call whose
\* construction fails with CredentialMissing leaves the slot empty; and while
\* the slot is empty every call attempts construction.
C22_SharedClientLazyOnce ==
    /\ server.made <= 1
    /\ server.calls = 0 => server = NoServer /\ client = NoClient
    /\ server.calls > 0 /\ server.last.exc = "none" =>
           /\ server.last.val # NoInstance
           /\ server.last.val = server.first
           /\ server.client = server.first
    /\ server.last.exc = CredentialMissing => server.client = NoInstance
    /\ server.client = NoInstance => server.attempts = server.calls /\ server.made = 0

C22_Witness ==
    /\ server.calls = 3 /\ server.attempts = 2 /\ server.made = 1
    /\ server.last = Instance(1) /\ server.first = 1 /\ server.client = 1

====
